---- MODULE Spec2Model ----
(***************************************************************************)
(* Model of the request pipeline of the Ramaris Go SDK (ramaris.go):       *)
(* Client.doRequest with its retry loop, Client.updateRateLimit,           *)
(* Client.RateLimit and the RWMutex that guards the rate-limit snapshot.   *)
(*                                                                         *)
(* A Go string is a sequence of one-character strings ("42" is             *)
(* <<"4","2">>); a pointer is a sequence of length 0 (nil) or 1.           *)
(***************************************************************************)
EXTENDS Integers, Sequences, FiniteSets, TLC

\* ------------------------------------------------------------------ bounds

\* number of public calls each caller goroutine issues one after another
MaxRounds == 1

\* ------------------------------------------------------- program constants

\* mutant: one attempt too many
maxRetries_OneMore == 3 + 1

\* ramaris.go:70  maxRetries := 3
maxRetries == 3

\* ramaris.go:71  backoff := 500 * time.Millisecond   (in milliseconds)
initialBackoff == 500

\* ramaris.go:102  http.StatusTooManyRequests
StatusTooManyRequests == 429

\* ------------------------------------------------------------- the domain

\* goroutines that call an endpoint method on the one Client
Callers == {"g1", "g2"}

NoOne == "none"

\* statuses the transport can answer with
Statuses == {200, 301, 404, 429, 500}

HLimit == "X-RateLimit-Limit"
HRemaining == "X-RateLimit-Remaining"
HReset == "X-RateLimit-Reset"
HeaderNames == {HLimit, HRemaining, HReset}

\* An http.Header maps a name to its list of values; a header that is not
\* in the response has the empty list.
Hdr(l, r, rs) == [k \in HeaderNames |->
                    IF k = HLimit THEN l ELSE IF k = HRemaining THEN r ELSE rs]

Absent == << >>
One(s) == << s >>

\* the header sets a response can carry
NoHeaders == Hdr(Absent, Absent, Absent)
HeadersA == Hdr(One(<<"1", "0", "0">>), One(<<"9", "9">>), One(<<"1", "7">>))
\* signs, leading zeros, and a header sent twice
HeadersB == Hdr(One(<<"+", "5">>), << <<"-", "1">>, <<"8">> >>, One(<<"0", "0", "7">>))
\* X-RateLimit-Remaining is not in the response
HeadersPartial == Hdr(One(<<"5">>), Absent, One(<<"6">>))
\* X-RateLimit-Remaining is in the response with the value ""
HeadersEmpty == Hdr(One(<<"5">>), One(<< >>), One(<<"6">>))
\* all three are in the response, two of them are not numbers
HeadersJunk == Hdr(One(<<"9">>), One(<<"4", "x">>), One(<<"-">>))

PipelineHeaders ==
    { NoHeaders, HeadersA, HeadersB, HeadersPartial, HeadersEmpty, HeadersJunk }

\* what io.ReadAll reads from a response body: valid is FALSE when the body is not the JSON of an error
\* envelope; the other fields are the envelope's error.code, error.message
\* and error.retryAfter
Bodies ==
    { [valid |-> FALSE, code |-> "", message |-> "", retryAfter |-> 0],
      [valid |-> TRUE, code |-> "", message |-> "", retryAfter |-> 0],
      [valid |-> TRUE, code |-> "E_CODE", message |-> "", retryAfter |-> 0],
      [valid |-> TRUE, code |-> "E_CODE", message |-> "text", retryAfter |-> 60] }

\* an *http.Response as httpClient.Do returns it: status line and headers;
\* the body is a stream that is read later
Responses == [status : Statuses, header : PipelineHeaders]

NoResponse == [status |-> 0, header |-> NoHeaders]

NoBody == [valid |-> FALSE, code |-> "", message |-> "", retryAfter |-> 0]

\* the answers of a server that is up or down and sends one header set
SmallResponses ==
    [status : {200, 500}, header : {HeadersA}]

\* causes of a failed httpClient.Do other than the context
IOCauses == {"connection refused"}

\* ctx.Err() of a context that is done
CtxErrors == {"context canceled", "context deadline exceeded"}

\* ------------------------------------------------------------------ state

VARIABLES
    active,       \* the goroutines that call the Client's endpoint methods
    menu,         \* the responses the server can give to each goroutine's calls
    argsMenu,     \* the (path, opts) arguments the callers call doRequest with
    ctxMenu,      \* the errors the callers' contexts can end with
    apiKey,       \* c.apiKey
    baseURL,      \* c.baseURL
    httpClient,   \* c.httpClient
    baseURLValid, \* whether c.baseURL + path parses as a URL
    peerMenu,     \* the header sets the server of a second Client can send
    peerRateLimit, \* the second Client's rateLimit field
    args,         \* the path and opts of each caller's current call
    reqURL,       \* doRequest's reqURL
    sent,         \* the requests this call handed to c.httpClient.Do
    out,          \* what the endpoint method returned: (value, err)
    lastComplete, \* headers of the last response whose three headers were numbers
    carried,      \* whether a response had a value for each of the three headers
    lastLocked,   \* l, r, rs (lines 161-163) of the update that took the write lock last
    closes,       \* per response of this call: whether its Body was read, how often closed
    rshared,      \* whether rret points to the struct c.rateLimit points to
    rateLimit,    \* c.rateLimit: << >> is nil, <<r>> points to r
    mu,           \* c.mu: the goroutine holding the write lock, the readers
    pc,           \* where each caller is inside doRequest
    round,        \* how many calls each caller has started
    i,            \* doRequest's loop variable i
    backoff,      \* doRequest's backoff, in milliseconds
    resp,         \* the response of the current attempt
    doErr,        \* the error c.httpClient.Do returned, "" when none
    body,         \* what io.ReadAll read from the last non-2xx response
    ctxErr,       \* ctx.Err(): "" until the call's context is done
    timerFired,   \* whether the channel of time.After(backoff) is ready
    waited,       \* the backoff waits that elapsed in this call, in order
    calls,        \* how many times this call invoked c.httpClient.Do
    hist,         \* the outcome of each attempt: a status, or 0 for an error
    result,       \* what doRequest returned
    rpc,          \* where the goroutine calling RateLimit() is
    rret          \* what RateLimit() returned last

vars == << active, menu, argsMenu, ctxMenu, apiKey, baseURL, httpClient, baseURLValid, peerMenu,
           peerRateLimit, args, reqURL,
           sent, out, lastComplete, carried, lastLocked, closes, rshared, rateLimit, mu, pc, round, i, backoff, resp,
           doErr, body, ctxErr, timerFired, waited, calls, hist, result, rpc,
           rret >>

\* ---------------------------------------------------------------- helpers

Nil == << >>
Ptr(x) == << x >>

\* http.Header.Get: the first value of the header, "" when there is none
Get(h, k) == IF h[k] = << >> THEN << >> ELSE h[k][1]

DigitValue == [c \in {"0", "1", "2", "3", "4", "5", "6", "7", "8", "9"} |->
                CASE c = "0" -> 0 [] c = "1" -> 1 [] c = "2" -> 2 [] c = "3" -> 3
                  [] c = "4" -> 4 [] c = "5" -> 5 [] c = "6" -> 6 [] c = "7" -> 7
                  [] c = "8" -> 8 [] c = "9" -> 9]

IsDigit(c) == c \in DOMAIN DigitValue

\* the loop  n = n*10 + int(ch)  of strconv.Atoi over the digits of s,
\* started with n; ok is FALSE as soon as a byte is not a digit
RECURSIVE AtoiDigits(_, _)
AtoiDigits(s, n) ==
    IF s = << >> THEN [val |-> n, ok |-> TRUE]
    ELSE IF ~IsDigit(Head(s)) THEN [val |-> 0, ok |-> FALSE]
    ELSE AtoiDigits(Tail(s), n * 10 + DigitValue[Head(s)])

\* strconv.Atoi(s): val is the int returned, ok is err == nil.  The strings
\* of the model are shorter than 19 bytes, so no value is out of range.
Atoi(s) ==
    IF s = << >> THEN [val |-> 0, ok |-> FALSE]
    ELSE LET signed == Head(s) \in {"-", "+"}
             digits == IF signed THEN Tail(s) ELSE s
             r      == AtoiDigits(digits, 0)
         IN  IF digits = << >> THEN [val |-> 0, ok |-> FALSE]
             ELSE IF ~r.ok THEN r
             ELSE IF Head(s) = "-" THEN [val |-> 0 - r.val, ok |-> TRUE]
             ELSE r

\* mutant: return only when all three headers are ""
HeaderMissing_All(h) ==
    /\ Get(h, HLimit) = << >>
    /\ Get(h, HRemaining) = << >>
    /\ Get(h, HReset) = << >>

\* updateRateLimit's early return: a header is "" (missing or empty)
HeaderMissing(h) ==
    \/ Get(h, HLimit) = << >>
    \/ Get(h, HRemaining) = << >>
    \/ Get(h, HReset) = << >>

\* mutant: Remaining and Reset take each other's header
NewRateLimitInfo_Swapped(h) ==
    [Limit     |-> Atoi(Get(h, HLimit)).val,
     Remaining |-> Atoi(Get(h, HReset)).val,
     Reset     |-> Atoi(Get(h, HRemaining)).val]

\* the RateLimitInfo updateRateLimit builds; the errors of Atoi are dropped
NewRateLimitInfo(h) ==
    [Limit     |-> Atoi(Get(h, HLimit)).val,
     Remaining |-> Atoi(Get(h, HRemaining)).val,
     Reset     |-> Atoi(Get(h, HReset)).val]

\* c.rateLimit after updateRateLimit(h) ran alone on snapshot rl
updateRateLimit(rl, h) ==
    IF HeaderMissing(h) THEN rl ELSE Ptr(NewRateLimitInfo(h))

\* RateLimit(): nil, or a pointer to a copy of *c.rateLimit
RateLimit(rl) == IF rl = Nil THEN Nil ELSE Ptr(rl[1])

\* mutant: RateLimit() returns c.rateLimit itself
SharesSnapshot_Alias(rl) == rl # Nil

\* RateLimit(), lines 62-63: cp is a variable of its own, so the pointer
\* returned is never the pointer the Client holds
SharesSnapshot(rl) == FALSE

codeOrDefault(code, def) == IF code # "" THEN code ELSE def

msgOrDefault(msg, def) == IF msg # "" THEN msg ELSE def

\* json.Unmarshal(body, &errResp) with its error dropped: the zero
\* errorResponse when the body is not an envelope
Unmarshal(data) ==
    IF data.valid
    THEN [Code |-> data.code, Message |-> data.message, RetryAfter |-> data.retryAfter]
    ELSE [Code |-> "", Message |-> "", RetryAfter |-> 0]

\* fmt.Sprintf("HTTP %d", status)
HTTPMessage(status) == "HTTP " \o ToString(status)

\* ---- the error values doRequest returns

ErrValue(type, code, message, status, retryAfter, wraps) ==
    [type |-> type, Code |-> code, Message |-> message, StatusCode |-> status,
     RetryAfter |-> retryAfter, wraps |-> wraps]

\* mutant: the defaults of *Error are used
NewRateLimitError_ErrorDefaults(data) ==
    ErrValue("*RateLimitError",
             codeOrDefault(Unmarshal(data).Code, "UNKNOWN_ERROR"),
             msgOrDefault(Unmarshal(data).Message, HTTPMessage(429)),
             429, Unmarshal(data).RetryAfter, "")

\* &RateLimitError{...} of lines 103-108, errResp unmarshalled from body
NewRateLimitError(data) ==
    ErrValue("*RateLimitError",
             codeOrDefault(Unmarshal(data).Code, "RATE_LIMITED"),
             msgOrDefault(Unmarshal(data).Message, "rate limit exceeded"),
             429, Unmarshal(data).RetryAfter, "")

\* mutant: a status >= 500 gets a default code of its own
NewError_ServerDefault(status, data) ==
    ErrValue("*Error",
             codeOrDefault(Unmarshal(data).Code,
                           IF status >= 500 THEN "SERVER_ERROR" ELSE "UNKNOWN_ERROR"),
             msgOrDefault(Unmarshal(data).Message, HTTPMessage(status)),
             status, 0, "")

\* &Error{...} of lines 123-127, errResp unmarshalled from body
NewError(status, data) ==
    ErrValue("*Error",
             codeOrDefault(Unmarshal(data).Code, "UNKNOWN_ERROR"),
             msgOrDefault(Unmarshal(data).Message, HTTPMessage(status)),
             status, 0, "")

\* mutant: the cause is formatted with %v and drops out of the chain
Wrap_Flattened(prefix, cause) == ErrValue("*fmt.wrapError", "", prefix, 0, 0, "")

\* fmt.Errorf(prefix + ": %w", cause)
Wrap(prefix, cause) == ErrValue("*fmt.wrapError", "", prefix, 0, 0, cause)

\* ctx.Err(), returned as it is
CtxError(e) == ErrValue("context", "", e, 0, 0, "")

\* fmt.Errorf("ramaris: max retries exceeded")
MaxRetriesExceeded ==
    ErrValue("*errors.errorString", "", "ramaris: max retries exceeded", 0, 0, "")

\* mutant: the error is swallowed
Return_NoError(r, e) == [resp |-> r, err |-> Nil]

\* a return of doRequest: (resp, err)
Return(r, e) == [resp |-> r, err |-> e]

NotReturned == Return(Nil, Nil)

\* resp.Body as c.httpClient.Do hands it over (line 81): unread and open
OpenBody == [read |-> FALSE, closed |-> 0]

\* mutant: the body of an error response is read and left open
ReadAllAndClose_Leak(log) ==
    [log EXCEPT ![Len(log)] = [read |-> TRUE, closed |-> @.closed]]

\* lines 94-95: io.ReadAll(resp.Body); resp.Body.Close(), on the response of
\* the current attempt
ReadAllAndClose(log) ==
    [log EXCEPT ![Len(log)] = [read |-> TRUE, closed |-> @.closed + 1]]

\* lines 192-194 and their like: defer resp.Body.Close() and
\* json.NewDecoder(resp.Body).Decode, on the response doRequest returned
DecodeAndClose(log) ==
    [log EXCEPT ![Len(log)] = [read |-> TRUE, closed |-> @.closed + 1]]

\* line 89: resp.StatusCode >= 200 && resp.StatusCode < 300
IsSuccess(status) == status >= 200 /\ status < 300

\* mutant: 429 is not told apart from the other statuses
IsRateLimited_Never(status) == FALSE

\* line 102
IsRateLimited(status) == status = StatusTooManyRequests

\* mutant: the last attempt is one too early
ShouldRetry_StopEarly(status, n) == status >= 500 /\ n < maxRetries - 2

\* mutant: every error status is retried
ShouldRetry_ClientErrors(status, n) == status >= 400 /\ n < maxRetries - 1

\* mutant: the attempts left are not looked at
ShouldRetry_NoLimit(status, n) == status >= 500

\* mutant: the last iteration of the loop waits and continues too
ShouldRetry_OffByOne(status, n) == status >= 500 /\ n < maxRetries

\* mutant: whatever is not returned before line 112 is retried
ShouldRetry_AnyStatus(status, n) == n < maxRetries - 1

\* line 112: resp.StatusCode >= 500 && i < maxRetries-1
ShouldRetry(status, n) == status >= 500 /\ n < maxRetries - 1

\* ---- what a header value says, read off its characters by place value

UnsignedPart(s) == IF s # << >> /\ s[1] \in {"+", "-"} THEN Tail(s) ELSE s

\* s is an optional sign followed by one or more decimal digits
IsNumber(s) ==
    /\ UnsignedPart(s) # << >>
    /\ \A k \in 1..Len(UnsignedPart(s)) : IsDigit(UnsignedPart(s)[k])

RECURSIVE TenTo(_)
TenTo(n) == IF n = 0 THEN 1 ELSE 10 * TenTo(n - 1)

RECURSIVE PlaceSum(_, _)
PlaceSum(d, k) ==
    IF k > Len(d) THEN 0
    ELSE DigitValue[d[k]] * TenTo(Len(d) - k) + PlaceSum(d, k + 1)

NumberValue(s) ==
    IF s[1] = "-" THEN 0 - PlaceSum(UnsignedPart(s), 1)
    ELSE PlaceSum(UnsignedPart(s), 1)

AllPresent(h) == \A k \in HeaderNames : h[k] # << >>

SomeAbsent(h) == \E k \in HeaderNames : h[k] = << >>

AllNumbers(h) == \A k \in HeaderNames : h[k] # << >> /\ IsNumber(h[k][1])

TripleOf(h) ==
    [Limit     |-> NumberValue(h[HLimit][1]),
     Remaining |-> NumberValue(h[HRemaining][1]),
     Reset     |-> NumberValue(h[HReset][1])]

\* each of the three headers is in the response with a value that is not ""
ValuedHeaders(h) == \A k \in HeaderNames : h[k] # << >> /\ h[k][1] # << >>

\* ------------------------------------------------- requests and their URL

\* ramaris.go:15  const defaultBaseURL
defaultBaseURL == "https://www.ramaris.app/api/v1"
\* a base URL given with WithBaseURL (lines 21-23)
LocalBaseURL == "http://localhost:3000"
\* a base URL that url.Parse rejects: a space in the host
BadBaseURL == "http://bad host"
BaseURLs == {defaultBaseURL, LocalBaseURL, BadBaseURL}

\* whether http.NewRequestWithContext (line 74) can parse base + path
ParsesAsURL(base) == base # BadBaseURL

APIKeys == {"rms_key", "rms_secret"}

\* lines 45-47: &http.Client{Timeout: 30 * time.Second}, in milliseconds
DefaultHTTPClient == [Timeout |-> 30 * 1000]

\* the values of ListOptions.Page and ListOptions.PageSize
Pages == {0 - 1, 0, 2}
PageSizes == {0 - 5, 0, 10}

\* *ListOptions: nil or a pointer to a ListOptions
ListOptionsPtrs ==
    {Nil} \cup {Ptr([Page |-> pg, PageSize |-> sz]) : pg \in Pages, sz \in PageSizes}

\* the arguments of one doRequest call
CallArgs == [path : {"/strategies"}, opts : ListOptionsPtrs]
\* Health() (line 299): c.doRequest(ctx, "/health", nil)
HealthArgs == [path |-> "/health", opts |-> Nil]
NoArgs == [path |-> "", opts |-> Nil]

\* strconv.Itoa
Itoa(n) == ToString(n)

\* url.Values with single-valued keys: a function from the keys that are
\* set to their value
EmptyValues == [k \in {} |-> ""]
ValuesSet(v, key, value) ==
    [k \in DOMAIN v \cup {key} |-> IF k = key THEN value ELSE v[k]]

\* the keys buildURL can set, in the byte order url.Values.Encode sorts by
SortedKeys == << "page", "pageSize" >>

\* url.Values.Encode: key=value pairs in sorted key order, joined by "&"
\* (QueryEscape leaves these keys and decimal digits as they are)
RECURSIVE EncodeFrom(_, _)
EncodeFrom(v, keys) ==
    IF keys = << >> THEN ""
    ELSE LET k == Head(keys)
             rest == EncodeFrom(v, Tail(keys))
         IN  IF k \notin DOMAIN v THEN rest
             ELSE k \o "=" \o v[k] \o (IF rest = "" THEN "" ELSE "&" \o rest)
Encode(v) == EncodeFrom(v, SortedKeys)

\* mutant: a zero Page or PageSize is sent too
buildURL_ZeroIncluded(base, path, opts) ==
    LET u == base \o path
    IN  IF opts = Nil THEN u
        ELSE LET o == opts[1]
                 p1 == IF o.Page >= 0
                       THEN ValuesSet(EmptyValues, "page", Itoa(o.Page))
                       ELSE EmptyValues
                 params == IF o.PageSize >= 0
                           THEN ValuesSet(p1, "pageSize", Itoa(o.PageSize))
                           ELSE p1
             IN  IF DOMAIN params = {} THEN u ELSE u \o "?" \o Encode(params)

\* buildURL, lines 133-150
buildURL(base, path, opts) ==
    LET u == base \o path
    IN  IF opts = Nil THEN u
        ELSE LET o == opts[1]
                 p1 == IF o.Page > 0
                       THEN ValuesSet(EmptyValues, "page", Itoa(o.Page))
                       ELSE EmptyValues
                 params == IF o.PageSize > 0
                           THEN ValuesSet(p1, "pageSize", Itoa(o.PageSize))
                           ELSE p1
             IN  IF DOMAIN params = {} THEN u ELSE u \o "?" \o Encode(params)

\* mutant: the key is sent without the Bearer scheme
NewRequest_NoScheme(url, key) ==
    [method |-> "GET", url |-> url, Authorization |-> key,
     Accept |-> "application/json"]

\* lines 74-79: a GET request to reqURL with the two headers set
NewRequest(url, key) ==
    [method |-> "GET", url |-> url, Authorization |-> "Bearer " \o key,
     Accept |-> "application/json"]

\* what an endpoint method returns: (result, err)
Outcome(v, e) == [value |-> v, err |-> e]
NoOutcome == Outcome(Nil, Nil)

\* the body of a 2xx response: valid is whether it is JSON of the shape
\* the endpoint method decodes into
SuccessBodies ==
    { [valid |-> FALSE, code |-> "", message |-> "", retryAfter |-> 0],
      [valid |-> TRUE, code |-> "", message |-> "", retryAfter |-> 0] }

\* mutant: a body that does not decode gives the zero result and no error
Decode_ZeroValue(data, readErr) == Outcome(Ptr("result"), Nil)

\* json.NewDecoder(resp.Body).Decode(&h) and the two returns after it
\* (lines 194-198): readErr is the error of reading the body, "" when the
\* body was read to its end
Decode(data, readErr) ==
    IF readErr # ""
    THEN Outcome(Nil, Ptr(Wrap("ramaris: failed to decode response", readErr)))
    ELSE IF ~data.valid
    THEN Outcome(Nil, Ptr(Wrap("ramaris: failed to decode response",
                               "invalid character")))
    ELSE Outcome(Ptr("result"), Nil)

\* the value a caller writes into a RateLimitInfo it got from RateLimit()
Scribbled == 0 - 7

\* ------------------------------------------------------------------- Init

\* the goroutine that reads the snapshot with RateLimit()
Reader == "r1"

\* the state after NewClient (lines 41-53) of the Client the goroutines call
\* and of a second Client, whose server sends the header sets peerHeaders
InitClients(goroutines, menus, arguments, ctxKinds, keys, bases, peerHeaders) ==
    /\ peerMenu = peerHeaders
    /\ peerRateLimit = Nil
    /\ active = goroutines
    /\ menu = menus
    /\ argsMenu = arguments
    /\ ctxMenu = ctxKinds
    /\ apiKey \in keys
    /\ baseURL \in bases
    /\ httpClient = DefaultHTTPClient
    /\ baseURLValid = ParsesAsURL(baseURL)
    /\ args = [p \in Callers |-> NoArgs]
    /\ reqURL = [p \in Callers |-> ""]
    /\ sent = [p \in Callers |-> << >>]
    /\ out = [p \in Callers |-> NoOutcome]
    /\ lastComplete = Nil
    /\ lastLocked = Nil
    /\ closes = [p \in Callers |-> << >>]
    /\ carried = FALSE
    /\ rshared = FALSE
    /\ rateLimit = Nil
    /\ mu = [writer |-> NoOne, readers |-> {}]
    /\ pc = [p \in Callers |-> "idle"]
    /\ round = [p \in Callers |-> 0]
    /\ i = [p \in Callers |-> 0]
    /\ backoff = [p \in Callers |-> initialBackoff]
    /\ resp = [p \in Callers |-> NoResponse]
    /\ doErr = [p \in Callers |-> ""]
    /\ body = [p \in Callers |-> NoBody]
    /\ ctxErr = [p \in Callers |-> ""]
    /\ timerFired = [p \in Callers |-> FALSE]
    /\ waited = [p \in Callers |-> << >>]
    /\ calls = [p \in Callers |-> 0]
    /\ hist = [p \in Callers |-> << >>]
    /\ result = [p \in Callers |-> NotReturned]
    /\ rpc = "idle"
    /\ rret = Nil

\* the same, the second Client's server sending no rate-limit headers
InitConfig(goroutines, menus, arguments, ctxKinds, keys, bases) ==
    InitClients(goroutines, menus, arguments, ctxKinds, keys, bases, {NoHeaders})

\* a Client made with NewClient(apiKey), or with a base URL that does not
\* parse, whose callers call Health() and whose server answers every caller
\* from the same responses
InitWith(goroutines, responses) ==
    InitConfig(goroutines, [p \in Callers |-> responses], {HealthArgs},
               CtxErrors, {"rms_key"}, {defaultBaseURL, BadBaseURL})

\* one goroutine calling the Client, a server that can answer anything
Init == InitWith({"g1"}, Responses)

\* ---------------------------------------------------------------- actions

cfgVars == << active, menu, argsMenu, ctxMenu, apiKey, baseURL, httpClient, baseURLValid,
             peerMenu >>
peerVars == << peerRateLimit >>
readerVars == << rpc, rret, rshared >>
reqVars == << args, reqURL, sent, out >>
ghostVars == << lastComplete, carried, lastLocked, closes >>

\* mutant: the path is appended to c.baseURL itself
StartCall_AppendsPath(p) ==
    /\ p \in active
    /\ pc[p] = "idle" \/ (pc[p] = "done" /\ out[p] # NoOutcome)
    /\ out' = [out EXCEPT ![p] = NoOutcome]
    /\ round[p] < MaxRounds
    /\ ctxErr' = [ctxErr EXCEPT ![p] = ""]
    /\ round' = [round EXCEPT ![p] = @ + 1]
    /\ i' = [i EXCEPT ![p] = 0]
    /\ backoff' = [backoff EXCEPT ![p] = initialBackoff]
    /\ resp' = [resp EXCEPT ![p] = NoResponse]
    /\ doErr' = [doErr EXCEPT ![p] = ""]
    /\ body' = [body EXCEPT ![p] = NoBody]
    /\ timerFired' = [timerFired EXCEPT ![p] = FALSE]
    /\ waited' = [waited EXCEPT ![p] = << >>]
    /\ calls' = [calls EXCEPT ![p] = 0]
    /\ hist' = [hist EXCEPT ![p] = << >>]
    /\ closes' = [closes EXCEPT ![p] = << >>]
    /\ result' = [result EXCEPT ![p] = NotReturned]
    /\ \E a \in argsMenu :
          /\ args' = [args EXCEPT ![p] = a]
          /\ reqURL' = [reqURL EXCEPT ![p] = buildURL(baseURL, a.path, a.opts)]
          /\ baseURL' = baseURL \o a.path
    /\ sent' = [sent EXCEPT ![p] = << >>]
    /\ pc' = [pc EXCEPT ![p] = "attempt"]
    /\ UNCHANGED << active, menu, argsMenu, ctxMenu, apiKey, httpClient, baseURLValid,
                    peerMenu, peerVars,
                    lastComplete, carried, lastLocked, readerVars, rateLimit, mu >>

\* An endpoint method calls doRequest (lines 67-71) with a context of its
\* own.
StartCall(p) ==
    /\ p \in active
    /\ pc[p] = "idle" \/ (pc[p] = "done" /\ out[p] # NoOutcome)
    /\ out' = [out EXCEPT ![p] = NoOutcome]
    /\ round[p] < MaxRounds
    /\ ctxErr' = [ctxErr EXCEPT ![p] = ""]
    /\ round' = [round EXCEPT ![p] = @ + 1]
    /\ i' = [i EXCEPT ![p] = 0]
    /\ backoff' = [backoff EXCEPT ![p] = initialBackoff]
    /\ resp' = [resp EXCEPT ![p] = NoResponse]
    /\ doErr' = [doErr EXCEPT ![p] = ""]
    /\ body' = [body EXCEPT ![p] = NoBody]
    /\ timerFired' = [timerFired EXCEPT ![p] = FALSE]
    /\ waited' = [waited EXCEPT ![p] = << >>]
    /\ calls' = [calls EXCEPT ![p] = 0]
    /\ hist' = [hist EXCEPT ![p] = << >>]
    /\ closes' = [closes EXCEPT ![p] = << >>]
    /\ result' = [result EXCEPT ![p] = NotReturned]
    /\ \E a \in argsMenu :
          /\ args' = [args EXCEPT ![p] = a]
          /\ reqURL' = [reqURL EXCEPT ![p] = buildURL(baseURL, a.path, a.opts)]
    /\ sent' = [sent EXCEPT ![p] = << >>]
    /\ pc' = [pc EXCEPT ![p] = "attempt"]
    /\ UNCHANGED << cfgVars, peerVars, lastComplete, carried, lastLocked, readerVars, rateLimit, mu >>

\* The caller's context is cancelled or its deadline passes, at any moment
\* from the start of the call on.
Cancel(p) ==
    /\ pc[p] \notin {"idle", "done"}
    /\ ctxErr[p] = ""
    /\ \E e \in ctxMenu : ctxErr' = [ctxErr EXCEPT ![p] = e]
    /\ UNCHANGED << cfgVars, peerVars, reqVars, ghostVars, readerVars, rateLimit, mu, pc, round, i, backoff,
                    resp, doErr, body, timerFired, waited, calls, hist, result >>

\* The loop test and lines 74-81 up to the call of c.httpClient.Do; when the
\* loop test fails, line 130.
Send(p) ==
    /\ pc[p] = "attempt"
    /\ IF i[p] < maxRetries
       THEN IF baseURLValid
            THEN /\ calls' = [calls EXCEPT ![p] = @ + 1]
                 /\ sent' = [sent EXCEPT ![p] =
                                Append(@, NewRequest(reqURL[p], apiKey))]
                 /\ pc' = [pc EXCEPT ![p] = "net"]
                 /\ UNCHANGED result
            ELSE /\ result' = [result EXCEPT ![p] =
                       Return(Nil, Ptr(Wrap("ramaris: failed to create request",
                                            "parse error")))]
                 /\ pc' = [pc EXCEPT ![p] = "done"]
                 /\ UNCHANGED << calls, sent >>
       ELSE /\ result' = [result EXCEPT ![p] = Return(Nil, Ptr(MaxRetriesExceeded))]
            /\ pc' = [pc EXCEPT ![p] = "done"]
            /\ UNCHANGED << calls, sent >>
    /\ UNCHANGED << cfgVars, peerVars, args, reqURL, out, ghostVars, readerVars, rateLimit, mu, round, i, backoff, resp,
                    doErr, body, ctxErr, timerFired, waited, hist >>

\* c.httpClient.Do returns a response (line 81, err == nil).
TransportRespond(p) ==
    /\ pc[p] = "net"
    /\ \E r \in menu[p] :
          /\ resp' = [resp EXCEPT ![p] = r]
          /\ hist' = [hist EXCEPT ![p] = Append(@, r.status)]
          /\ lastComplete' = IF AllNumbers(r.header) THEN Ptr(r.header)
                                                        ELSE lastComplete
          /\ carried' = (carried \/ ValuedHeaders(r.header))
    /\ UNCHANGED lastLocked
    /\ closes' = [closes EXCEPT ![p] = Append(@, OpenBody)]
    /\ pc' = [pc EXCEPT ![p] = "update"]
    /\ UNCHANGED << cfgVars, peerVars, reqVars, readerVars, rateLimit, mu, round, i, backoff, doErr,
                    body, ctxErr, timerFired, waited, calls, result >>

\* mutant: a failed round trip is retried like a 5xx response
TransportFail_Retry(p) ==
    /\ pc[p] = "net"
    /\ \E cause \in IOCauses \cup (IF ctxErr[p] = "" THEN {} ELSE {ctxErr[p]}) :
          doErr' = [doErr EXCEPT ![p] = cause]
    /\ hist' = [hist EXCEPT ![p] = Append(@, 0)]
    /\ IF i[p] < maxRetries - 1
       THEN /\ pc' = [pc EXCEPT ![p] = "backoff"]
            /\ UNCHANGED result
       ELSE /\ pc' = [pc EXCEPT ![p] = "done"]
            /\ result' = [result EXCEPT ![p] =
                  Return(Nil, Ptr(Wrap("ramaris: request failed", doErr'[p])))]
    /\ UNCHANGED << cfgVars, peerVars, reqVars, ghostVars, readerVars, rateLimit, mu, round, i, backoff, resp,
                    body, ctxErr, timerFired, waited, calls >>

\* c.httpClient.Do returns an error (lines 81-84): an I/O failure, or the
\* context's error once the context is done.
TransportFail(p) ==
    /\ pc[p] = "net"
    /\ \E cause \in IOCauses \cup (IF ctxErr[p] = "" THEN {} ELSE {ctxErr[p]}) :
          /\ doErr' = [doErr EXCEPT ![p] = cause]
          /\ result' = [result EXCEPT ![p] =
                          Return(Nil, Ptr(Wrap("ramaris: request failed", cause)))]
    /\ hist' = [hist EXCEPT ![p] = Append(@, 0)]
    /\ pc' = [pc EXCEPT ![p] = "done"]
    /\ UNCHANGED << cfgVars, peerVars, reqVars, ghostVars, readerVars, rateLimit, mu, round, i, backoff, resp,
                    body, ctxErr, timerFired, waited, calls >>

\* mutant: a response without the three headers makes the Client forget
\* its snapshot
UpdateCheck_Forgets(p) ==
    /\ pc[p] = "update"
    /\ pc' = [pc EXCEPT ![p] =
                IF HeaderMissing(resp[p].header) THEN "classify" ELSE "lock"]
    /\ rateLimit' = IF HeaderMissing(resp[p].header) THEN Nil ELSE rateLimit
    /\ UNCHANGED << cfgVars, peerVars, reqVars, ghostVars, readerVars, mu, round, i, backoff, resp,
                    doErr, body, ctxErr, timerFired, waited, calls, hist, result >>

\* updateRateLimit, lines 153-163: read the three headers, return when one
\* is "".
UpdateCheck(p) ==
    /\ pc[p] = "update"
    /\ pc' = [pc EXCEPT ![p] =
                IF HeaderMissing(resp[p].header) THEN "classify" ELSE "lock"]
    /\ UNCHANGED << cfgVars, peerVars, reqVars, ghostVars, readerVars, rateLimit, mu, round, i, backoff, resp,
                    doErr, body, ctxErr, timerFired, waited, calls, hist, result >>

\* mutant: the write lock is taken without waiting for the goroutine that
\* holds it
UpdateLock_NoWait(p) ==
    /\ pc[p] = "lock"
    /\ mu.readers = {}
    /\ mu' = [mu EXCEPT !.writer = p]
    /\ lastLocked' = Ptr(NewRateLimitInfo(resp[p].header))
    /\ pc' = [pc EXCEPT ![p] = "write"]
    /\ UNCHANGED << cfgVars, peerVars, reqVars, lastComplete, carried, closes, readerVars, rateLimit, round,
                    i, backoff, resp,
                    doErr, body, ctxErr, timerFired, waited, calls, hist, result >>

\* updateRateLimit, line 165: c.mu.Lock()
UpdateLock(p) ==
    /\ pc[p] = "lock"
    /\ mu.writer = NoOne
    /\ mu.readers = {}
    /\ mu' = [mu EXCEPT !.writer = p]
    /\ lastLocked' = Ptr(NewRateLimitInfo(resp[p].header))
    /\ pc' = [pc EXCEPT ![p] = "write"]
    /\ UNCHANGED << cfgVars, peerVars, reqVars, lastComplete, carried, closes, readerVars, rateLimit, round,
                    i, backoff, resp,
                    doErr, body, ctxErr, timerFired, waited, calls, hist, result >>

\* mutant: the struct the Client holds is written in place, and the lock is
\* given back after the first field
UpdateStore_UnlockEarly(p) ==
    /\ pc[p] = "write"
    /\ LET new == NewRateLimitInfo(resp[p].header)
           old == IF rateLimit = Nil
                  THEN [Limit |-> 0, Remaining |-> 0, Reset |-> 0]
                  ELSE rateLimit[1]
       IN  IF mu.writer = p
           THEN /\ rateLimit' = Ptr([old EXCEPT !.Limit = new.Limit])
                /\ mu' = [mu EXCEPT !.writer = NoOne]
                /\ UNCHANGED pc
           ELSE /\ rateLimit' = Ptr([old EXCEPT !.Remaining = new.Remaining,
                                                !.Reset = new.Reset])
                /\ pc' = [pc EXCEPT ![p] = "classify"]
                /\ UNCHANGED mu
    /\ rshared' = FALSE
    /\ UNCHANGED << cfgVars, peerVars, reqVars, ghostVars, rpc, rret, round, i, backoff, resp, doErr, body,
                    ctxErr, timerFired, waited, calls, hist, result >>

\* mutant: c.mu.Unlock() is left out
UpdateStore_KeepsLock(p) ==
    /\ pc[p] = "write"
    /\ rateLimit' = updateRateLimit(rateLimit, resp[p].header)
    /\ rshared' = FALSE
    /\ pc' = [pc EXCEPT ![p] = "classify"]
    /\ UNCHANGED << cfgVars, peerVars, reqVars, ghostVars, rpc, rret, round, i, backoff, resp, doErr, body,
                    ctxErr, timerFired, waited, calls, hist, result, mu >>

\* updateRateLimit, lines 166-167: store the new RateLimitInfo, c.mu.Unlock()
UpdateStore(p) ==
    /\ pc[p] = "write"
    /\ rateLimit' = updateRateLimit(rateLimit, resp[p].header)
    /\ rshared' = FALSE
    /\ mu' = [mu EXCEPT !.writer = NoOne]
    /\ pc' = [pc EXCEPT ![p] = "classify"]
    /\ UNCHANGED << cfgVars, peerVars, reqVars, ghostVars, rpc, rret, round, i, backoff, resp, doErr, body,
                    ctxErr, timerFired, waited, calls, hist, result >>

\* mutant: the *Error of a call that was retried reports the status of the
\* first response, the one that was retried
Classify_FirstFailure(p) ==
    /\ pc[p] = "classify"
    /\ LET r == resp[p] IN
       IF IsSuccess(r.status)
       THEN /\ result' = [result EXCEPT ![p] = Return(Ptr(r), Nil)]
            /\ pc' = [pc EXCEPT ![p] = "done"]
            /\ UNCHANGED << body, closes >>
       ELSE \E b \in Bodies :
            /\ body' = [body EXCEPT ![p] = b]
            /\ closes' = [closes EXCEPT ![p] = ReadAllAndClose(@)]
            /\ IF IsRateLimited(r.status)
               THEN /\ result' = [result EXCEPT ![p] =
                                    Return(Nil, Ptr(NewRateLimitError(b)))]
                    /\ pc' = [pc EXCEPT ![p] = "done"]
               ELSE IF ShouldRetry(r.status, i[p])
               THEN /\ pc' = [pc EXCEPT ![p] = "backoff"]
                    /\ UNCHANGED result
               ELSE /\ result' = [result EXCEPT ![p] =
                                    Return(Nil, Ptr(NewError(hist[p][1], b)))]
                    /\ pc' = [pc EXCEPT ![p] = "done"]
    /\ resp' = [resp EXCEPT ![p] = NoResponse]
    /\ timerFired' = [timerFired EXCEPT ![p] = FALSE]
    /\ UNCHANGED << cfgVars, peerVars, reqVars, lastComplete, carried, lastLocked, readerVars, rateLimit, mu, round, i,
                    backoff, doErr, ctxErr, waited, calls, hist >>

\* Lines 88-127 up to the select: return the 2xx response with its body
\* unread, or read and close the body and return the error, or start the
\* backoff timer.
Classify(p) ==
    /\ pc[p] = "classify"
    /\ LET r == resp[p] IN
       IF IsSuccess(r.status)
       THEN /\ result' = [result EXCEPT ![p] = Return(Ptr(r), Nil)]
            /\ pc' = [pc EXCEPT ![p] = "done"]
            /\ UNCHANGED << body, closes >>
       ELSE \E b \in Bodies :
            /\ body' = [body EXCEPT ![p] = b]
            /\ closes' = [closes EXCEPT ![p] = ReadAllAndClose(@)]
            /\ IF IsRateLimited(r.status)
               THEN /\ result' = [result EXCEPT ![p] =
                                    Return(Nil, Ptr(NewRateLimitError(b)))]
                    /\ pc' = [pc EXCEPT ![p] = "done"]
               ELSE IF ShouldRetry(r.status, i[p])
               THEN /\ pc' = [pc EXCEPT ![p] = "backoff"]
                    /\ UNCHANGED result
               ELSE /\ result' = [result EXCEPT ![p] =
                                    Return(Nil, Ptr(NewError(r.status, b)))]
                    /\ pc' = [pc EXCEPT ![p] = "done"]
    /\ resp' = [resp EXCEPT ![p] = NoResponse]
    /\ timerFired' = [timerFired EXCEPT ![p] = FALSE]
    /\ UNCHANGED << cfgVars, peerVars, reqVars, lastComplete, carried, lastLocked, readerVars, rateLimit, mu, round, i,
                    backoff, doErr, ctxErr, waited, calls, hist >>

\* The timer of time.After(backoff) fires (line 116's channel gets ready).
TimerElapse(p) ==
    /\ pc[p] = "backoff"
    /\ ~timerFired[p]
    /\ timerFired' = [timerFired EXCEPT ![p] = TRUE]
    /\ UNCHANGED << cfgVars, peerVars, reqVars, ghostVars, readerVars, rateLimit, mu, pc, round, i, backoff,
                    resp, doErr, body, ctxErr, waited, calls, hist, result >>

\* mutant: the wait is not doubled
BackoffElapsed_SameWait(p) ==
    /\ pc[p] = "backoff"
    /\ timerFired[p]
    /\ waited' = [waited EXCEPT ![p] = Append(@, backoff[p])]
    /\ i' = [i EXCEPT ![p] = @ + 1]
    /\ timerFired' = [timerFired EXCEPT ![p] = FALSE]
    /\ pc' = [pc EXCEPT ![p] = "attempt"]
    /\ UNCHANGED << cfgVars, peerVars, reqVars, ghostVars, readerVars, rateLimit, mu, round, resp, doErr, body,
                    ctxErr, calls, hist, result, backoff >>

\* The select takes  case <-time.After(backoff)  (lines 116-118) and the
\* loop goes to its next iteration.
BackoffElapsed(p) ==
    /\ pc[p] = "backoff"
    /\ timerFired[p]
    /\ waited' = [waited EXCEPT ![p] = Append(@, backoff[p])]
    /\ backoff' = [backoff EXCEPT ![p] = @ * 2]
    /\ i' = [i EXCEPT ![p] = @ + 1]
    /\ timerFired' = [timerFired EXCEPT ![p] = FALSE]
    /\ pc' = [pc EXCEPT ![p] = "attempt"]
    /\ UNCHANGED << cfgVars, peerVars, reqVars, ghostVars, readerVars, rateLimit, mu, round, resp, doErr, body,
                    ctxErr, calls, hist, result >>

\* mutant: the context is looked at only after the backoff was slept out
BackoffCancelled_AfterSleep(p) ==
    /\ pc[p] = "backoff"
    /\ timerFired[p]
    /\ ctxErr[p] # ""
    /\ result' = [result EXCEPT ![p] = Return(Nil, Ptr(CtxError(ctxErr[p])))]
    /\ pc' = [pc EXCEPT ![p] = "done"]
    /\ UNCHANGED << cfgVars, peerVars, reqVars, ghostVars, readerVars, rateLimit, mu, round, i, backoff, resp,
                    doErr, body, ctxErr, timerFired, waited, calls, hist >>

\* The select takes  case <-ctx.Done()  (lines 114-115).  When both channels
\* are ready the select takes either case.
BackoffCancelled(p) ==
    /\ pc[p] = "backoff"
    /\ ctxErr[p] # ""
    /\ result' = [result EXCEPT ![p] = Return(Nil, Ptr(CtxError(ctxErr[p])))]
    /\ pc' = [pc EXCEPT ![p] = "done"]
    /\ UNCHANGED << cfgVars, peerVars, reqVars, ghostVars, readerVars, rateLimit, mu, round, i, backoff, resp,
                    doErr, body, ctxErr, timerFired, waited, calls, hist >>

\* The endpoint method after doRequest returned (lines 188-198): hand the
\* error on, or read and decode the body of the 2xx response.  Reading the
\* body can fail once the context is done.
EndpointReturn(p) ==
    /\ pc[p] = "done"
    /\ out[p] = NoOutcome
    /\ IF result[p].err # Nil
       THEN /\ out' = [out EXCEPT ![p] = Outcome(Nil, result[p].err)]
            /\ UNCHANGED << body, closes >>
       ELSE \E b \in SuccessBodies :
            \E readErr \in {""} \cup {ctxErr[p]} :
               /\ body' = [body EXCEPT ![p] = b]
               /\ out' = [out EXCEPT ![p] = Decode(b, readErr)]
               /\ closes' = [closes EXCEPT ![p] = DecodeAndClose(@)]
    /\ UNCHANGED << cfgVars, peerVars, args, reqURL, sent, lastComplete, carried, lastLocked, readerVars, rateLimit, mu, pc,
                    round, i, backoff, resp, doErr, ctxErr, timerFired, waited,
                    calls, hist, result >>

\* RateLimit(), line 57: c.mu.RLock().  A reader is let in whenever no
\* writer holds the lock; that sync.RWMutex also holds new readers back
\* while a writer is waiting only removes interleavings.
ReadLock ==
    /\ rpc = "idle"
    /\ mu.writer = NoOne
    /\ mu' = [mu EXCEPT !.readers = @ \cup {Reader}]
    /\ rpc' = "rlocked"
    /\ UNCHANGED << cfgVars, peerVars, reqVars, ghostVars, rateLimit, pc, round, i, backoff, resp, doErr, body,
                    ctxErr, timerFired, waited, calls, hist, result, rret, rshared >>

\* RateLimit(), lines 59-63 and the deferred RUnlock
ReadReturn ==
    /\ rpc = "rlocked"
    /\ rret' = RateLimit(rateLimit)
    /\ rshared' = SharesSnapshot(rateLimit)
    /\ mu' = [mu EXCEPT !.readers = @ \ {Reader}]
    /\ rpc' = "idle"
    /\ UNCHANGED << cfgVars, peerVars, reqVars, ghostVars, rateLimit, pc, round, i, backoff, resp, doErr, body,
                    ctxErr, timerFired, waited, calls, hist, result >>

\* The caller of RateLimit() writes into the RateLimitInfo it was given.
\* The write lands in the Client's snapshot when, and only when, the two
\* pointers are the same.
Scribble ==
    /\ rpc = "idle"
    /\ rret # Nil
    /\ rret[1].Remaining # Scribbled
    /\ rret' = Ptr([rret[1] EXCEPT !.Remaining = Scribbled])
    /\ rateLimit' = IF rshared THEN rret' ELSE rateLimit
    /\ UNCHANGED << cfgVars, peerVars, reqVars, ghostVars, mu, pc, round, i, backoff, resp, doErr, body,
                    ctxErr, timerFired, waited, calls, hist, result, rpc, rshared >>

\* mutant: the snapshot is a variable of the package, one for all Clients
PeerCall_PackageSnapshot ==
    /\ \E h \in peerMenu :
          /\ peerRateLimit' = updateRateLimit(peerRateLimit, h)
          /\ rateLimit' = updateRateLimit(rateLimit, h)
    /\ UNCHANGED << cfgVars, reqVars, ghostVars, readerVars, mu, pc, round, i, backoff, resp,
                    doErr, body, ctxErr, timerFired, waited, calls, hist, result >>

\* A call on a second Client made by NewClient (lines 42-49: its own
\* rateLimit and mu) gets a response and runs updateRateLimit on it
\* (lines 86, 152-168); the update is under the second Client's own mutex.
PeerCall ==
    /\ \E h \in peerMenu :
          peerRateLimit' = updateRateLimit(peerRateLimit, h)
    /\ UNCHANGED << cfgVars, reqVars, ghostVars, readerVars, rateLimit, mu, pc, round, i,
                    backoff, resp,
                    doErr, body, ctxErr, timerFired, waited, calls, hist, result >>

Next ==
    \/ \E p \in Callers : StartCall(p)
    \/ \E p \in Callers : Cancel(p)
    \/ \E p \in Callers : Send(p)
    \/ \E p \in Callers : TransportRespond(p)
    \/ \E p \in Callers : TransportFail(p)
    \/ \E p \in Callers : UpdateCheck(p)
    \/ \E p \in Callers : UpdateLock(p)
    \/ \E p \in Callers : UpdateStore(p)
    \/ \E p \in Callers : Classify(p)
    \/ \E p \in Callers : TimerElapse(p)
    \/ \E p \in Callers : BackoffElapsed(p)
    \/ \E p \in Callers : BackoffCancelled(p)
    \/ \E p \in Callers : EndpointReturn(p)
    \/ ReadLock
    \/ ReadReturn
    \/ Scribble
    \/ PeerCall

Spec == Init /\ [][Next]_vars

\* the one answer of a server that is up
BusyResponses == {[status |-> 200, header |-> HeadersB]}

\* Two goroutines call Health() on one Client at the same time while a
\* third reads RateLimit(): the first is answered from SmallResponses, the
\* second always gets 200 with HeadersB.
InitConc ==
    InitConfig(Callers,
               [p \in Callers |-> IF p = "g1" THEN SmallResponses ELSE BusyResponses],
               {HealthArgs}, {"context canceled"}, {"rms_key"}, {defaultBaseURL})

SpecConc == InitConc /\ [][Next]_vars

\* the answers of a server that sends the three headers with every status
AnyStatusResponses == [status : Statuses, header : {HeadersA}]

\* the steps of a call that the goroutine takes by itself once it is
\* scheduled; the timer of time.After is among them
CallStep(p) ==
    \/ Send(p)
    \/ UpdateCheck(p)
    \/ UpdateStore(p)
    \/ Classify(p)
    \/ TimerElapse(p)
    \/ BackoffElapsed(p)
    \/ BackoffCancelled(p)

\* Goroutines that can run do run; every round trip ends with a response or
\* an error; a reader gives its read lock back (the deferred RUnlock of line
\* 58); and a goroutine that asks for the write lock gets it whenever the
\* lock keeps becoming free, since a sync.RWMutex with a Lock pending lets
\* no new reader in.
Fairness ==
    /\ \A p \in Callers : WF_vars(CallStep(p))
    /\ \A p \in Callers : WF_vars(TransportRespond(p) \/ TransportFail(p))
    /\ \A p \in Callers : SF_vars(UpdateLock(p))
    /\ WF_vars(ReadReturn)

InitLive ==
    InitConfig({"g1"}, [p \in Callers |-> AnyStatusResponses], {HealthArgs},
               {"context canceled"}, {"rms_key"}, {defaultBaseURL, BadBaseURL})

SpecLive == InitLive /\ [][Next]_vars /\ Fairness

\* One goroutine calls ListStrategies with any of the ListOptions on a
\* Client made with either key and any of the base URLs.
InitURL ==
    InitConfig({"g1"}, [p \in Callers |-> SmallResponses], CallArgs,
               {"context canceled"}, APIKeys, BaseURLs)

SpecURL == InitURL /\ [][Next]_vars

\* the header sets the second Client's server sends
PeerHeaders == {HeadersB, HeadersPartial, HeadersJunk}

\* One goroutine calls Health() on one Client and a RateLimit() reader reads
\* it, while calls on a second Client get responses with PeerHeaders.
InitPeer ==
    InitClients({"g1"}, [p \in Callers |-> SmallResponses], {HealthArgs},
                {"context canceled"}, {"rms_key"}, {defaultBaseURL}, PeerHeaders)

SpecPeer == InitPeer /\ [][Next]_vars

\* ----------------------------------------------------------------- claims

Last(s) == s[Len(s)]

AllServerErrors(h) == \A k \in 1..Len(h) : h[k] >= 500

\* the call is past the transport and has not started another attempt
AfterResponse(p) == pc[p] \in {"update", "lock", "write", "classify", "done"}

Returned(p) == pc[p] = "done"

ErrorOf(p) == result[p].err[1]

\* C1: one call of doRequest invokes the transport at most 3 times; after 3
\* responses with status >= 500 it returns an error and makes no 4th call.
C1_AtMostThreeTransportCalls ==
    \A p \in Callers :
        /\ calls[p] <= 3
        /\ (Len(hist[p]) = 3 /\ AllServerErrors(hist[p]))
              => /\ AfterResponse(p)
                 /\ calls[p] = 3
                 /\ Returned(p) => (result[p].resp = Nil /\ result[p].err # Nil)

C1_Witness ==
    \E p \in Callers :
        /\ Returned(p)
        /\ Len(hist[p]) = 3 /\ AllServerErrors(hist[p])
        /\ calls[p] = 3
        /\ result[p].err # Nil

C3_SuccessOnNthAttempt ==
    \A p \in Callers :
        ctxErr[p] = "" =>
           /\ (Len(hist[p]) \in 1..2 /\ AllServerErrors(hist[p])) => ~Returned(p)
           /\ ( /\ Returned(p)
                /\ Len(hist[p]) \in 1..3
                /\ AllServerErrors(SubSeq(hist[p], 1, Len(hist[p]) - 1))
                /\ IsSuccess(Last(hist[p])) )
                 => /\ result[p].err = Nil
                    /\ result[p].resp # Nil
                    /\ result[p].resp[1].status = Last(hist[p])
                    /\ calls[p] = Len(hist[p])

C3_Witness ==
    \E p \in Callers :
        /\ Returned(p)
        /\ ctxErr[p] = ""
        /\ Len(hist[p]) = 3
        /\ hist[p][1] >= 500 /\ hist[p][2] >= 500 /\ IsSuccess(hist[p][3])
        /\ result[p].err = Nil
        /\ calls[p] = 3

\* a status that is not 2xx, not 429 and below 500
OtherClientStatus(st) ==
    st \in Statuses /\ ~(st >= 200 /\ st < 300) /\ st # 429 /\ st < 500

\* C4: once an attempt got a status that is not 2xx, not 429 and below 500,
\* the call makes no further transport call and waits for no backoff, and it
\* returns an *Error with that status and with the envelope's code when the
\* envelope has one.
C4_ClientErrorReturnsAtOnce ==
    \A p \in Callers :
        (hist[p] # << >> /\ OtherClientStatus(Last(hist[p])))
           => /\ AfterResponse(p)
              /\ calls[p] = Len(hist[p])
              /\ Len(waited[p]) = Len(hist[p]) - 1
              /\ Returned(p) =>
                    /\ result[p].resp = Nil
                    /\ result[p].err # Nil
                    /\ ErrorOf(p).type = "*Error"
                    /\ ErrorOf(p).StatusCode = Last(hist[p])
                    /\ (body[p].valid /\ body[p].code # "")
                          => ErrorOf(p).Code = body[p].code

C4_Witness ==
    \E p \in Callers :
        /\ Returned(p)
        /\ hist[p] = << 404 >>
        /\ body[p].valid /\ body[p].code = "E_CODE"
        /\ ErrorOf(p).type = "*Error"
        /\ ErrorOf(p).Code = "E_CODE"

\* C5: when the third attempt gets a status >= 500 the call waits for no
\* further backoff and returns an *Error, not the retries-exhausted error,
\* whose StatusCode is the status of the third response.
C5_ThirdServerErrorIsReturned ==
    \A p \in Callers :
        (Len(hist[p]) = 3 /\ hist[p][3] >= 500)
           => /\ AfterResponse(p)
              /\ Len(waited[p]) = 2
              /\ Returned(p) =>
                    /\ result[p].err # Nil
                    /\ ErrorOf(p).type = "*Error"
                    /\ ErrorOf(p).StatusCode = hist[p][3]
                    /\ ErrorOf(p) # MaxRetriesExceeded

C5_Witness ==
    \E p \in Callers :
        /\ Returned(p)
        /\ hist[p] = << 500, 500, 500 >>
        /\ ErrorOf(p).type = "*Error"
        /\ ErrorOf(p).StatusCode = 500

\* C6: when c.httpClient.Do fails on any attempt the call returns at once
\* with a nil response and an error that wraps the cause, makes no further
\* transport call, and the attempt (sending, failing) leaves the snapshot as
\* it was.
C6_TransportErrorAborts ==
    [][\A p \in Callers :
          /\ (pc[p] = "attempt" /\ pc'[p] # "attempt") => rateLimit' = rateLimit
          /\ (pc[p] = "net" /\ doErr[p] = "" /\ doErr'[p] # "")
                => /\ pc'[p] = "done"
                   /\ result'[p].resp = Nil
                   /\ result'[p].err # Nil
                   /\ result'[p].err[1].wraps = doErr'[p]
                   /\ calls'[p] = calls[p]
                   /\ rateLimit' = rateLimit
          /\ (doErr[p] # "" /\ round'[p] = round[p])
                => /\ pc'[p] = "done"
                   /\ calls'[p] = calls[p]
                   /\ result'[p] = result[p]
      ]_vars

C6_Witness ==
    \E p \in Callers :
        /\ Returned(p)
        /\ hist[p] = << 500, 0 >>
        /\ doErr[p] = "context deadline exceeded"
        /\ ErrorOf(p).wraps = "context deadline exceeded"
        /\ calls[p] = 2
        /\ rateLimit # Nil

\* C7: while a call waits in the backoff with its context done and the timer
\* not yet fired, returning is possible without the timer, and the call's
\* next step returns the context's error without another transport call.
C7_CancelDuringBackoff ==
    [][\A p \in Callers :
          (pc[p] = "backoff" /\ ctxErr[p] # "" /\ ~timerFired[p])
             => /\ ENABLED BackoffCancelled(p)
                /\ pc'[p] # "backoff"
                      => /\ pc'[p] = "done"
                         /\ result'[p] = Return(Nil, Ptr(CtxError(ctxErr[p])))
                         /\ calls'[p] = calls[p]
      ]_vars

C7_Witness ==
    \E p \in Callers :
        /\ Returned(p)
        /\ ~timerFired[p]
        /\ hist[p] = << 500 >>
        /\ calls[p] = 1
        /\ result[p] = Return(Nil, Ptr(CtxError("context canceled")))

InUpdateRateLimit(p) == pc[p] \in {"update", "lock", "write"}

\* C8: when a response carries the three headers, each a number, and no
\* other goroutine updates the snapshot, RateLimit() after updateRateLimit
\* returns exactly the triple of the three numbers.
C8_CompleteHeadersAreStored ==
    \A p \in Callers :
        (pc[p] = "classify" /\ active = {p} /\ AllNumbers(resp[p].header))
           => RateLimit(rateLimit) = Ptr(TripleOf(resp[p].header))

C8_Witness ==
    \E p \in Callers :
        /\ pc[p] = "classify"
        /\ active = {p}
        /\ resp[p].header = HeadersB
        /\ RateLimit(rateLimit) = Ptr([Limit |-> 5, Remaining |-> 0 - 1, Reset |-> 7])

\* C9: when one of the three headers is not in the response, every step the
\* call takes inside updateRateLimit leaves the snapshot, and so what
\* RateLimit() returns, unchanged, and updateRateLimit returns without
\* taking the lock.
C9_MissingHeaderLeavesSnapshot ==
    [][\A p \in Callers :
          (InUpdateRateLimit(p) /\ SomeAbsent(resp[p].header) /\ pc'[p] # pc[p])
             => /\ pc[p] = "update"
                /\ pc'[p] = "classify"
                /\ rateLimit' = rateLimit
                /\ RateLimit(rateLimit') = RateLimit(rateLimit)
      ]_vars

C9_Witness ==
    \E p \in Callers :
        /\ pc[p] = "classify"
        /\ resp[p].header = HeadersPartial
        /\ rateLimit = Ptr([Limit |-> 100, Remaining |-> 99, Reset |-> 17])

\* C10: when the three headers are in the response and one of them is not a
\* number, every step the call takes inside updateRateLimit leaves the
\* snapshot unchanged.
C10_UnparsableHeaderLeavesSnapshot ==
    [][\A p \in Callers :
          ( /\ InUpdateRateLimit(p)
            /\ AllPresent(resp[p].header)
            /\ ~AllNumbers(resp[p].header)
            /\ pc'[p] # pc[p] )
             => /\ rateLimit' = rateLimit
                /\ RateLimit(rateLimit') = RateLimit(rateLimit)
      ]_vars

\* C11: after a call has returned (one goroutine calling), RateLimit()
\* returns the three numbers of the last response, of whatever status, whose
\* three headers were all there as numbers, and nil when there was none.
C11_SnapshotIsLastCompleteResponse ==
    \A p \in Callers :
        (Returned(p) /\ active = {p})
           => RateLimit(rateLimit) =
                 IF lastComplete = Nil THEN Nil
                 ELSE Ptr(TripleOf(lastComplete[1]))

\* every response the server can give to one of the calling goroutines
Servable == UNION {menu[p] : p \in active}

\* the snapshots that hold the three numbers of one response
WholeTriples ==
    {Ptr(TripleOf(r.header)) : r \in {x \in Servable : AllNumbers(x.header)}}

\* C12: with two goroutines calling and one reading at the same time, what
\* RateLimit() returns is nil or the three numbers of one response, never
\* fields of two updates.
C12_NoTornRead ==
    [][(rpc = "rlocked" /\ rpc' = "idle") => rret' \in {Nil} \cup WholeTriples]_vars

\* the reader holds the numbers of one goroutine's response while the other
\* goroutine, whose update came later, is writing again
C12_Witness ==
    /\ rpc = "idle"
    /\ rret = Ptr(TripleOf(HeadersA))
    /\ rateLimit = Ptr(TripleOf(HeadersB))
    /\ pc["g2"] = "done"
    /\ mu.writer = "g1"

\* C13: a step of a call, a store of a new snapshot included, leaves the
\* value RateLimit() returned earlier as it is, and when the caller writes
\* into that value, what RateLimit() returns from then on is as before.
C13_ReturnedCopyIsIndependent ==
    [][/\ (\E p \in Callers : pc'[p] # pc[p]) => rret' = rret
       /\ (rpc' = rpc /\ rret' # rret)
             => RateLimit(rateLimit') = RateLimit(rateLimit)
      ]_vars

\* the reader got the numbers of one response and wrote into them; the
\* Client has since stored the numbers of a later response
C13_Witness ==
    /\ rret = Ptr([TripleOf(HeadersA) EXCEPT !.Remaining = Scribbled])
    /\ rateLimit = Ptr(TripleOf(HeadersB))

\* no call is between receiving a response and the end of updateRateLimit
Settled == \A p \in Callers : ~InUpdateRateLimit(p)

\* C14: whenever every response received has been through updateRateLimit,
\* RateLimit() returns nil exactly when no response so far had a value for
\* each of the three headers; and once RateLimit() can return a snapshot, no
\* step takes it back to nil.
C14_NilUntilHeadersCarried ==
    [][/\ Settled => (RateLimit(rateLimit) = Nil <=> ~carried)
       /\ RateLimit(rateLimit) # Nil => RateLimit(rateLimit') # Nil
      ]_vars

\* the reader was given nil earlier in the call; by the end of the call,
\* after a retry, a response has carried the headers and the Client has a
\* snapshot
C14_Witness ==
    \E p \in Callers :
        /\ Returned(p)
        /\ Len(hist[p]) = 2
        /\ hist[p][1] = 500
        /\ carried
        /\ lastComplete # Nil
        /\ rateLimit # Nil
        /\ rret = Nil
        /\ rpc = "idle"

\* C15: a call that has returned has given either a response and no error,
\* or no response and one error; never neither and never both.
C15_ExactlyOneOutcome ==
    \A p \in Callers :
        Returned(p)
           => \/ result[p].resp # Nil /\ result[p].err = Nil
              \/ result[p].resp = Nil /\ Len(result[p].err) = 1

\* a call returned the error of a failed round trip, made after a retry
C15_Witness ==
    \E p \in Callers :
        /\ Returned(p)
        /\ hist[p] = << 500, 0 >>
        /\ result[p].resp = Nil
        /\ ErrorOf(p).type = "*fmt.wrapError"

\* C16: a call that returned after nothing but 5xx responses, its context
\* not done, was retried 3 times (4 attempts) and waited 500ms, 1s and 2s
\* between its attempts.
C16_ThreeRetriesThreeWaits ==
    \A p \in Callers :
        (Returned(p) /\ ctxErr[p] = "" /\ hist[p] # << >> /\ AllServerErrors(hist[p]))
           => /\ Len(hist[p]) = 1 + 3
              /\ waited[p] = << 500, 1000, 2000 >>

RECURSIVE TwoTo(_)
TwoTo(n) == IF n = 0 THEN 1 ELSE 2 * TwoTo(n - 1)

\* C17: a call leaves its backoff for the next attempt only with the timer
\* fired; attempt k+1 is made only after k waits; the k-th wait follows a 5xx
\* response to attempt k and is 500ms * 2^(k-1), and there are at most two.
C17_BackoffBeforeEachRetry ==
    [][\A p \in Callers :
          /\ (pc[p] = "backoff" /\ pc'[p] = "attempt") => timerFired[p]
          /\ calls'[p] <= Len(waited'[p]) + 1
          /\ Len(waited'[p]) <= 2
          /\ \A k \in 1..Len(waited'[p]) :
                /\ waited'[p][k] = 500 * TwoTo(k - 1)
                /\ k <= Len(hist'[p])
                /\ hist'[p][k] >= 500
      ]_vars

\* the third attempt is under way after waits of 500ms and 1000ms
C17_Witness ==
    \E p \in Callers :
        /\ pc[p] = "net"
        /\ calls[p] = 3
        /\ waited[p] = << 500, 1000 >>
        /\ hist[p] = << 500, 500 >>

\* ---- the decimal numeral of a positive number, digit by digit

DigitChars == << "0", "1", "2", "3", "4", "5", "6", "7", "8", "9" >>

RECURSIVE Decimal(_)
Decimal(n) ==
    IF n < 10 THEN DigitChars[n + 1]
    ELSE Decimal(n \div 10) \o DigitChars[(n % 10) + 1]

\* the URL of a call with arguments a on base URL base, case by case
ExpectedURL(base, a) ==
    LET hasPage == a.opts # Nil /\ a.opts[1].Page > 0
        hasSize == a.opts # Nil /\ a.opts[1].PageSize > 0
        page == "page=" \o Decimal(a.opts[1].Page)
        size == "pageSize=" \o Decimal(a.opts[1].PageSize)
    IN  CASE hasPage /\ hasSize  -> base \o a.path \o "?" \o page \o "&" \o size
          [] hasPage /\ ~hasSize -> base \o a.path \o "?" \o page
          [] ~hasPage /\ hasSize -> base \o a.path \o "?" \o size
          [] OTHER               -> base \o a.path

\* C18: the URL of a call is baseURL + path, then "?" and page=<Page> if
\* Page > 0 and pageSize=<PageSize> if PageSize > 0, page first, joined by
\* "&"; with opts nil or neither field positive it is baseURL + path alone.
C18_QueryOnlyPositiveFields ==
    \A p \in Callers :
        pc[p] # "idle" => reqURL[p] = ExpectedURL(baseURL, args[p])

\* a call with both fields positive has returned
C18_Witness ==
    \E p \in Callers :
        /\ Returned(p)
        /\ args[p].opts = Ptr([Page |-> 2, PageSize |-> 10])
        /\ baseURL = defaultBaseURL
        /\ reqURL[p] = "https://www.ramaris.app/api/v1/strategies?page=2&pageSize=10"

\* C19: every request a call has handed to the transport, the first and the
\* retries, is a GET to the call's one URL with the headers
\* Authorization: Bearer <the Client's key> and Accept: application/json.
C19_EveryAttemptSameRequest ==
    \A p \in Callers :
        /\ Len(sent[p]) = calls[p]
        /\ \A k \in 1..Len(sent[p]) :
              /\ sent[p][k].method = "GET"
              /\ sent[p][k].url = reqURL[p]
              /\ sent[p][k].url = sent[p][1].url
              /\ sent[p][k].Authorization = "Bearer " \o apiKey
              /\ sent[p][k].Accept = "application/json"

\* the second retry of a call went out with the key of the Client
C19_Witness ==
    \E p \in Callers :
        /\ calls[p] = 3
        /\ Len(sent[p]) = 3
        /\ apiKey = "rms_secret"
        /\ sent[p][3].Authorization = "Bearer rms_secret"
        /\ sent[p][3].url = "http://localhost:3000/strategies?page=2"

\* C20: the error returned for a 429 response is a *RateLimitError whose
\* RetryAfter is the envelope's retryAfter, whose Code is the envelope's code
\* and whose Message is the envelope's message; with no envelope in the body
\* they are 0, "RATE_LIMITED" and "rate limit exceeded", and an empty code
\* or message gets its default by itself.
C20_RateLimitErrorFields ==
    \A p \in Callers :
        (Returned(p) /\ hist[p] # << >> /\ Last(hist[p]) = 429)
           => /\ result[p].resp = Nil
              /\ ErrorOf(p).type = "*RateLimitError"
              /\ ErrorOf(p).RetryAfter =
                    (IF body[p].valid THEN body[p].retryAfter ELSE 0)
              /\ ErrorOf(p).Code =
                    (IF body[p].valid /\ body[p].code # "" THEN body[p].code
                     ELSE "RATE_LIMITED")
              /\ ErrorOf(p).Message =
                    (IF body[p].valid /\ body[p].message # "" THEN body[p].message
                     ELSE "rate limit exceeded")

\* a 429 whose envelope has a code and no message
C20_Witness ==
    \E p \in Callers :
        /\ Returned(p)
        /\ hist[p] = << 429 >>
        /\ body[p].valid
        /\ ErrorOf(p).Code = "E_CODE"
        /\ ErrorOf(p).Message = "rate limit exceeded"
        /\ ErrorOf(p).RetryAfter = 0

\* the call returned an *Error for the response of its last attempt
ReturnedAPIError(p) ==
    /\ Returned(p)
    /\ hist[p] # << >>
    /\ Last(hist[p]) # 0
    /\ result[p].err # Nil
    /\ ErrorOf(p).type = "*Error"

\* the body had no envelope, or the envelope no code / no message
NoCode(b) == ~b.valid \/ b.code = ""
NoMessage(b) == ~b.valid \/ b.message = ""

\* C21 as stated: an *Error for a response without a usable envelope has
\* the message "HTTP <status>" and the code "UNKNOWN_ERROR" when the status
\* is below 500, "SERVER_ERROR" when it is 500 or more.
C21_DefaultCodeByStatus ==
    \A p \in Callers :
        ReturnedAPIError(p)
           => /\ NoMessage(body[p])
                    => ErrorOf(p).Message = "HTTP " \o Decimal(Last(hist[p]))
              /\ NoCode(body[p])
                    => ErrorOf(p).Code = IF Last(hist[p]) < 500 THEN "UNKNOWN_ERROR"
                                                                ELSE "SERVER_ERROR"

\* C21 amended: the message is "HTTP <status>" and the code is
\* "UNKNOWN_ERROR" whatever the status, 500 and more included.
C21_DefaultCodeUnknown ==
    \A p \in Callers :
        ReturnedAPIError(p)
           => /\ ErrorOf(p).StatusCode = Last(hist[p])
              /\ NoMessage(body[p])
                    => ErrorOf(p).Message = "HTTP " \o Decimal(Last(hist[p]))
              /\ NoCode(body[p]) => ErrorOf(p).Code = "UNKNOWN_ERROR"

\* the third 500 in a row came with a body that is no envelope
C21_Witness ==
    \E p \in Callers :
        /\ ReturnedAPIError(p)
        /\ hist[p] = << 500, 500, 500 >>
        /\ ~body[p].valid
        /\ ErrorOf(p).Code = "UNKNOWN_ERROR"
        /\ ErrorOf(p).Message = "HTTP 500"

\* C22: when doRequest returned a 2xx response and its body does not decode,
\* the endpoint method returns no result and one error, which is the
\* decoding error (not an *Error, not a *RateLimitError, not the error of a
\* failed round trip); and once the method has returned, the call makes no
\* transport call and waits for no backoff.
C22_DecodeErrorIsDistinct ==
    [][\A p \in Callers :
          /\ (out'[p] # NoOutcome /\ result'[p].resp # Nil /\ ~body'[p].valid)
                => /\ IsSuccess(Last(hist'[p]))
                   /\ out'[p].value = Nil
                   /\ Len(out'[p].err) = 1
                   /\ out'[p].err[1].type \notin {"*Error", "*RateLimitError"}
                   /\ out'[p].err[1].Message = "ramaris: failed to decode response"
                   /\ out'[p].err[1].Message # "ramaris: request failed"
                   /\ out'[p].err[1].wraps # ""
          /\ (out[p] # NoOutcome /\ round'[p] = round[p])
                => /\ calls'[p] = calls[p]
                   /\ waited'[p] = waited[p]
                   /\ out'[p] = out[p]
      ]_vars

\* a 200 after one retried 500 came with a body that is not the JSON of
\* the result
C22_Witness ==
    \E p \in Callers :
        /\ hist[p] = << 500, 200 >>
        /\ calls[p] = 2
        /\ ~body[p].valid
        /\ ctxErr[p] = ""
        /\ out[p] # NoOutcome
        /\ out[p].value = Nil
        /\ out[p].err[1].wraps = "invalid character"

\* C23: under Fairness, a call that has started returns from doRequest,
\* having made at most 3 transport calls and waited for at most 2 backoffs.
C23_EveryCallReturns ==
    \A p \in Callers :
        (pc[p] \notin {"idle", "done"})
           ~> (pc[p] = "done" /\ calls[p] <= 3 /\ Len(waited[p]) <= 2)

\* a call returned after 3 transport calls and 2 waits
C23_Witness ==
    \E p \in Callers :
        /\ Returned(p)
        /\ calls[p] = 3
        /\ Len(waited[p]) = 2
        /\ Len(hist[p]) = 3

\* the call returned from the select of the backoff without a next attempt
EndedInBackoff(p) ==
    /\ Returned(p)
    /\ hist[p] # << >>
    /\ Last(hist[p]) >= 500
    /\ Len(hist[p]) < maxRetries

\* the call returned because the round trip failed on the context
EndedInNet(p) ==
    /\ Returned(p)
    /\ doErr[p] # ""
    /\ doErr[p] = ctxErr[p]

C25_ConfigurationNeverChanges ==
    [][apiKey' = apiKey /\ baseURL' = baseURL /\ httpClient' = httpClient]_vars

\* a call has gone through a retry and returned, the snapshot was written
\* and read, and the Client is as NewClient made it
C25_Witness ==
    \E p \in Callers :
        /\ out[p] # NoOutcome
        /\ Len(hist[p]) = 2
        /\ rateLimit # Nil
        /\ rret # Nil
        /\ apiKey = "rms_key"
        /\ baseURL = defaultBaseURL
        /\ httpClient = DefaultHTTPClient

C27_FallbackUnreachable ==
    \A p \in Callers :
        /\ result[p].err # Nil => ErrorOf(p) # MaxRetriesExceeded
        /\ out[p].err # Nil => out[p].err[1] # MaxRetriesExceeded
        /\ i[p] < maxRetries

\* the third iteration ended the call, from inside the loop
C27_Witness ==
    \E p \in Callers :
        /\ Returned(p)
        /\ i[p] = maxRetries - 1
        /\ calls[p] = maxRetries
        /\ waited[p] = << 500, 1000 >>
        /\ result[p].err # Nil
        /\ ErrorOf(p).Message # "ramaris: max retries exceeded"

\* C28: when a call leaves the select of its backoff with its context
\* done, the timer fired or not, it returns the context's error and goes to
\* no further attempt.
C28_CancellationPreemptsBackoff ==
    [][\A p \in Callers :
          (pc[p] = "backoff" /\ ctxErr[p] # "" /\ pc'[p] # "backoff")
             => /\ pc'[p] = "done"
                /\ result'[p] = Return(Nil, Ptr(CtxError(ctxErr[p])))
                /\ calls'[p] = calls[p]
                /\ i'[p] = i[p]
      ]_vars

\* a call waiting on the network (Do, lines 81-84) or in the select of its
\* backoff (lines 113-119)
Waiting(p) == pc[p] \in {"net", "backoff"}

\* C29: a call that waits on the network or on the backoff timer holds
\* neither the write lock nor a read lock of the Client's mutex; whoever
\* holds the write lock then is another call inside updateRateLimit, about
\* to give it back.
C29_NoLockAcrossWaits ==
    \A p \in Callers :
        Waiting(p) =>
            /\ mu.writer # p
            /\ p \notin mu.readers
            /\ mu.writer # NoOne => pc[mu.writer] = "write"
            /\ mu.readers # {} => (mu.readers = {Reader} /\ rpc = "rlocked")

\* one call waits in its backoff while another call stores its snapshot
\* under the write lock, and one call waits on the network while
\* RateLimit() holds the read lock
C29_Witness ==
    \E p, q \in Callers :
        /\ p # q
        /\ pc[p] = "backoff"
        /\ calls[p] > 0
        /\ \/ pc[q] = "write" /\ mu.writer = q
           \/ pc[q] = "net" /\ rpc = "rlocked" /\ Reader \in mu.readers

\* what the attempt that ended the call came to: the status of its response
\* (0 when the round trip failed), the body read from it, the cause of the
\* failure
LastOutcome(p) ==
    [status |-> Last(hist[p]), data |-> body[p], cause |-> doErr[p]]

\* the call returned from an attempt: not from the select of the backoff,
\* and not before its first round trip
EndedInAttempt(p) ==
    /\ Returned(p)
    /\ hist[p] # << >>
    /\ ~EndedInBackoff(p)

\* the error an attempt's outcome o stands for; Nil for a 2xx response
ErrorFor(o) ==
    IF o.status = 0
    THEN Ptr(Wrap("ramaris: request failed", o.cause))
    ELSE IF IsSuccess(o.status) THEN Nil
    ELSE IF o.status = StatusTooManyRequests THEN Ptr(NewRateLimitError(o.data))
    ELSE Ptr(NewError(o.status, o.data))

\* C30: the result of a call that returned from an attempt is a function of
\* that attempt's outcome alone (its status, its body, the cause of its
\* failure) and of nothing the earlier attempts came to; a *Error with a
\* status >= 500 is the one of the third attempt, never of a retried one.
C30_ResultFromLastAttemptOnly ==
    \A p \in Callers :
        EndedInAttempt(p) =>
            /\ result[p].err = ErrorFor(LastOutcome(p))
            /\ result[p].resp # Nil
                  => (result[p].err = Nil
                        /\ result[p].resp[1].status = LastOutcome(p).status)
            /\ (result[p].err # Nil /\ ErrorOf(p).StatusCode >= 500)
                  => Len(hist[p]) = maxRetries

\* a call retried a 500 and ended with the *Error of a 404 that came after
C30_Witness ==
    \E p \in Callers :
        /\ EndedInAttempt(p)
        /\ Len(hist[p]) > 1
        /\ hist[p][1] >= 500
        /\ Last(hist[p]) = 404
        /\ result[p].err # Nil
        /\ ErrorOf(p).type = "*Error"
        /\ ErrorOf(p).StatusCode = 404

\* the public method has returned to its caller
MethodReturned(p) == pc[p] = "done" /\ out[p] # NoOutcome

\* the bodies of the first n responses of p's call were read and closed once
ClosedOnce(p, n) ==
    \A k \in 1..n : closes[p][k] = [read |-> TRUE, closed |-> 1]

\* C31: no response body is closed twice; the body of a non-2xx response
\* is read and closed once before doRequest retries or returns; doRequest
\* returns a 2xx response with its body unread and open; once the public
\* method has returned every body of the call has been closed exactly once.
C31_BodiesClosedExactlyOnce ==
    \A p \in Callers :
        LET n == Len(closes[p]) IN
        /\ \A k \in 1..n : closes[p][k].closed <= 1
        /\ pc[p] \in {"attempt", "net", "backoff"} => ClosedOnce(p, n)
        /\ (Returned(p) /\ result[p].err # Nil) => ClosedOnce(p, n)
        /\ (Returned(p) /\ result[p].resp # Nil /\ ~MethodReturned(p))
              => /\ n > 0
                 /\ closes[p][n] = OpenBody
                 /\ ClosedOnce(p, n - 1)
        /\ MethodReturned(p) => ClosedOnce(p, n)

\* the method returned after two retried 500s and a 2xx response it decoded
C31_Witness ==
    \E p \in Callers :
        /\ MethodReturned(p)
        /\ result[p].resp # Nil
        /\ hist[p] = << 500, 500, 200 >>
        /\ Len(closes[p]) = 3
        /\ ClosedOnce(p, 3)

NoUpdateInProgress == \A q \in Callers : pc[q] # "write"

\* C32: whenever no update is between its Lock and its Unlock (so also when
\* every call has returned) the Client's snapshot is the triple of the
\* update that took the write lock last, and every RateLimit() returns the
\* triple of the update that took the lock last before the read, an update
\* that is over by then.
C32_UpdatesInLockOrder ==
    [][ /\ NoUpdateInProgress' => RateLimit(rateLimit') = lastLocked'
        /\ (rpc = "rlocked" /\ rpc' = "idle")
              => /\ NoUpdateInProgress
                 /\ rret' = lastLocked
      ]_vars

\* both goroutines' calls have returned, the snapshot is the triple of the
\* update that locked last, and a RateLimit() in between returned the triple
\* of the other goroutine's earlier update
C32_Witness ==
    /\ active = Callers
    /\ \A p \in Callers : Returned(p) /\ closes[p] # << >>
    /\ rpc = "idle"
    /\ lastLocked # Nil
    /\ rateLimit = lastLocked
    /\ rret \in WholeTriples
    /\ rret # rateLimit

\* everything a call on the first Client, or a RateLimit() on it, can touch
firstClientVars ==
    << reqVars, readerVars, rateLimit, mu, pc, round, i, backoff, resp, doErr, body,
       ctxErr, timerFired, waited, calls, hist, result, closes >>

\* C33: a step of a call (or of a RateLimit()) on one Client leaves what
\* RateLimit() returns on the other Client as it was, in both directions.
C33_SnapshotIsPerClient ==
    [][ /\ firstClientVars' # firstClientVars
              => RateLimit(peerRateLimit') = RateLimit(peerRateLimit)
        /\ peerRateLimit' # peerRateLimit
              => /\ RateLimit(rateLimit') = RateLimit(rateLimit)
                 /\ rret' = rret
      ]_vars

\* both Clients have taken an update from their own responses, and the two
\* snapshots differ
C33_Witness ==
    /\ Returned("g1")
    /\ rateLimit = Ptr(NewRateLimitInfo(HeadersA))
    /\ peerRateLimit = Ptr(NewRateLimitInfo(HeadersB))
    /\ RateLimit(rateLimit) # RateLimit(peerRateLimit)

====
